---- MODULE Spec2Model ----
(***************************************************************************)
(* A model of sqlx-core/src/query_string.rs: the QueryString value (four   *)
(* storage modes over a pointer and a length), the QuerySafeStr           *)
(* conversions that build it, into_static, as_str, equality and hashing.  *)
(*                                                                         *)
(* Memory is modelled explicitly: a heap of allocations, a read-only       *)
(* segment holding the program's string literals, and the dangling        *)
(* pointer an empty Box<str> or a capacity-0 String carries.  A value is   *)
(* a (mode, pointer, length) triple, and its text is what the memory holds *)
(* at that pointer, so sharing, copying and mutation are observable.      *)
(***************************************************************************)
EXTENDS Integers, Sequences, FiniteSets, TLC

\* ---------------------------------------------------------------- bounds
MaxLen == 1
MaxSlack == 1
MaxOwn == 1
MaxVals == 2

\* ---------------------------------------------------------------- texts
\* Payload bytes: the null byte and an ASCII letter.
Byte == {0, 97}

Texts == UNION {[1..n -> Byte] : n \in 0..MaxLen}

RECURSIVE SetToSeq(_)
SetToSeq(S) ==
    IF S = {} THEN <<>>
    ELSE LET x == CHOOSE y \in S : TRUE IN <<x>> \o SetToSeq(S \ {x})

\* The string literals of the calling program (&'static str), by their place
\* in read-only memory.  The last literal repeats the text "a" at another
\* address, so that "the same text" and "the same literal" differ.
Literals == SetToSeq(Texts) \o << <<97>> >>

\* ---------------------------------------------------------------- memory
Addr == 1..(MaxOwn + MaxVals + 1)

Dangling == [seg |-> "dangling", n |-> 1]

HeapPtr(a) == [seg |-> "heap", n |-> a]

RodataPtr(i) == [seg |-> "rodata", n |-> i]

FreeCell == [live |-> FALSE, data |-> <<>>, size |-> 0, rc |-> 0]

\* The bytes a freed allocation reads as: a dangling reference reads garbage.
Poison == <<-1>>

\* Reading `len` bytes at `ptr` (what dereferencing a &str does).
Load(h, ptr, len) ==
    IF len = 0 THEN <<>>
    ELSE IF ptr.seg = "rodata" THEN SubSeq(Literals[ptr.n], 1, len)
    ELSE IF ptr.seg = "heap" /\ h[ptr.n].live /\ Len(h[ptr.n].data) >= len
         THEN SubSeq(h[ptr.n].data, 1, len)
    ELSE Poison

\* The allocator: the lowest free address.
Fresh(h) == CHOOSE a \in Addr : ~h[a].live /\ \A b \in Addr : b < a => h[b].live

Dealloc(h, ptr) ==
    IF ptr.seg = "heap" THEN [h EXCEPT ![ptr.n] = FreeCell] ELSE h

\* ---------------------------------------------------------------- values
Modes == {"Slice", "Static", "Boxed", "Arced"}

\* QueryString(Repr): the storage mode, the fat pointer (ptr, len) and, for a
\* Slice, the owner its lifetime 'a is tied to (0: 'static).
QueryString(mode, ptr, len, origin) ==
    [mode |-> mode, ptr |-> ptr, len |-> len, origin |-> origin]

NoVal == QueryString("None", Dangling, 0, 0)

\* A text the caller holds: a String (ptr, len, cap), a Box<str> or an Arc<str>.
Producer(kind, ptr, len, cap) ==
    [kind |-> kind, ptr |-> ptr, len |-> len, cap |-> cap]

NoProd == Producer("None", Dangling, 0, 0)

Result(val, h, allocs, copied) ==
    [val |-> val, heap |-> h, allocs |-> allocs, copied |-> copied]

VARIABLES heap, own, vals, born, last

vars == <<heap, own, vals, born, last>>

Slots == DOMAIN vals

Owners == 1..MaxOwn

Live(v) == vals[v].mode # "None"

TextOf(h, p) == Load(h, p.ptr, p.len)

\* No Slice value borrows from owner o (what the borrow checker demands
\* before o is moved, changed or dropped).
Unborrowed(o) == \A v \in Slots : ~(vals[v].mode = "Slice" /\ vals[v].origin = o)

\* ------------------------------------------------- conversions into Box<str>
\* Box<str>::from(&str), the `s.into()` of into_static and the body of
\* Box<str>::clone: a zero-length box holds no allocation; otherwise one
\* allocation of `len` bytes and one copy of the text into it.
BoxFromStr(h, ptr, len) ==
    IF len = 0
    THEN [ptr |-> Dangling, heap |-> h, allocs |-> 0, copied |-> 0]
    ELSE LET a == Fresh(h) IN
         [ptr |-> HeapPtr(a),
          heap |-> [h EXCEPT ![a] = [live |-> TRUE, data |-> Load(h, ptr, len),
                                     size |-> len, rc |-> 0]],
          allocs |-> 1, copied |-> len]

\* String::into_boxed_str, the `self.0.into()` of AssertQuerySafe<String>: a
\* String whose capacity equals its length hands over its buffer; spare
\* capacity is shrunk first, which frees the buffer when the text is empty
\* and otherwise reallocates it, in place or (moved) into a new allocation
\* the text is copied to, as the allocator decides.
StringIntoBoxedStr(h, p, moved) ==
    IF p.cap = p.len
    THEN [ptr |-> p.ptr, heap |-> h, allocs |-> 0, copied |-> 0]
    ELSE IF p.len = 0
    THEN [ptr |-> Dangling, heap |-> Dealloc(h, p.ptr), allocs |-> 0, copied |-> 0]
    ELSE IF moved
    THEN LET b == BoxFromStr(h, p.ptr, p.len) IN
         [ptr |-> b.ptr, heap |-> Dealloc(b.heap, p.ptr),
          allocs |-> 1, copied |-> p.len]
    ELSE [ptr |-> p.ptr,
          heap |-> [h EXCEPT ![p.ptr.n].size = p.len],
          allocs |-> 0, copied |-> 0]

\* The Arc<str> inside AssertQuerySafe<Arc<str>>, moved out of the wrapper
\* (the `self.into()` of the Arc conversion): the same shared allocation, its
\* reference count as it was.
AssertIntoArc(p) == p

\* ---------------------------------------------------------- QuerySafeStr
\* Mutant: the literal is copied into a Box<str> instead of being kept by reference.
into_query_string_static_boxed(h, i) ==
    LET b == BoxFromStr(h, RodataPtr(i), Len(Literals[i])) IN
    Result(QueryString("Boxed", b.ptr, Len(Literals[i]), 0), b.heap, b.allocs, b.copied)

\* impl QuerySafeStr<'static> for &'static str
into_query_string_static(h, i) ==
    Result(QueryString("Static", RodataPtr(i), Len(Literals[i]), 0), h, 0, 0)

\* impl QuerySafeStr<'a> for AssertQuerySafe<&'a str>; o is the owner the
\* borrow comes from.
into_query_string_slice(h, p, o) ==
    Result(QueryString("Slice", p.ptr, p.len, o), h, 0, 0)

\* Mutant: the box is given the String's capacity as its length.
into_query_string_string_cap(h, p, moved) ==
    LET b == StringIntoBoxedStr(h, p, moved) IN
    Result(QueryString("Boxed", b.ptr, p.cap, 0), b.heap, b.allocs, b.copied)

\* impl QuerySafeStr<'static> for AssertQuerySafe<String>
into_query_string_string(h, p, moved) ==
    LET b == StringIntoBoxedStr(h, p, moved) IN
    Result(QueryString("Boxed", b.ptr, p.len, 0), b.heap, b.allocs, b.copied)

\* impl QuerySafeStr<'static> for AssertQuerySafe<Box<str>>
into_query_string_box(h, p) ==
    Result(QueryString("Boxed", p.ptr, p.len, 0), h, 0, 0)

\* impl QuerySafeStr<'static> for AssertQuerySafe<Arc<str>>
into_query_string_arc(h, p) ==
    LET a == AssertIntoArc(p) IN
    Result(QueryString("Arced", a.ptr, a.len, 0), h, 0, 0)

\* impl QuerySafeStr<'a> for QueryString<'a>
into_query_string_self(h, q) == Result(q, h, 0, 0)

\* ---------------------------------------------------------- QueryString
\* Mutant: the Boxed arm copies its text into a new box as the Slice arm does.
into_static_always_copy(h, q) ==
    CASE q.mode \in {"Slice", "Boxed"} ->
           LET b == BoxFromStr(h, q.ptr, q.len) IN
           Result(QueryString("Boxed", b.ptr, q.len, 0),
                  IF q.mode = "Boxed" THEN Dealloc(b.heap, q.ptr) ELSE b.heap,
                  b.allocs, b.copied)
      [] OTHER -> Result(QueryString(q.mode, q.ptr, q.len, 0), h, 0, 0)

\* Mutant: the Slice arm relabels the borrowed pointer as a box without copying.
into_static_alias(h, q) ==
    Result(QueryString(IF q.mode = "Slice" THEN "Boxed" ELSE q.mode, q.ptr, q.len, 0),
           h, 0, 0)

\* Mutant: every arm returns self, the Slice arm too.
into_static_noop(h, q) == Result(q, h, 0, 0)

\* QueryString::into_static
into_static(h, q) ==
    CASE q.mode = "Slice" ->
           LET b == BoxFromStr(h, q.ptr, q.len) IN
           Result(QueryString("Boxed", b.ptr, q.len, 0), b.heap, b.allocs, b.copied)
      [] q.mode = "Static" -> Result(QueryString("Static", q.ptr, q.len, 0), h, 0, 0)
      [] q.mode = "Boxed" -> Result(QueryString("Boxed", q.ptr, q.len, 0), h, 0, 0)
      [] q.mode = "Arced" -> Result(QueryString("Arced", q.ptr, q.len, 0), h, 0, 0)

\* QueryString::as_str, reading memory h
as_str_in(h, q) ==
    CASE q.mode = "Slice" -> Load(h, q.ptr, q.len)
      [] q.mode = "Static" -> Load(h, q.ptr, q.len)
      [] q.mode = "Boxed" -> Load(h, q.ptr, q.len)
      [] q.mode = "Arced" -> Load(h, q.ptr, q.len)

as_str(q) == as_str_in(heap, q)

\* impl AsRef<str> for QueryString
as_ref(q) == as_str(q)

\* impl Borrow<str> for QueryString
borrow(q) == as_str(q)

\* Mutant: equality derived on the representation (mode, pointer, length).
eq_by_repr(a, b) == a = b

\* Mutant: equality as "other starts with self".
eq_prefix(a, b) ==
    /\ Len(as_str(a)) <= Len(as_ref(b))
    /\ SubSeq(as_ref(b), 1, Len(as_str(a))) = as_str(a)

\* impl PartialEq<T: AsRef<str>> for QueryString, with another QueryString
eq(a, b) == as_str(a) = as_ref(b)

\* Hasher::write over a 16-bit hasher state
RECURSIVE HasherWrite(_, _)
HasherWrite(state, bytes) ==
    IF bytes = <<>> THEN state
    ELSE HasherWrite((state * 31 + Head(bytes)) % 65536, Tail(bytes))

\* impl Hash for QueryString: str::hash writes the bytes, then 0xff
hash(q) == HasherWrite(HasherWrite(0, as_str(q)), <<255>>)

\* Mutant: a bitwise copy, the Boxed clone sharing the original's allocation.
clone_shallow(h, q) ==
    IF q.mode = "Arced" THEN Result(q, [h EXCEPT ![q.ptr.n].rc = @ + 1], 0, 0)
    ELSE Result(q, h, 0, 0)

\* #[derive(Clone)] on QueryString / Repr
clone(h, q) ==
    CASE q.mode = "Slice" -> Result(q, h, 0, 0)
      [] q.mode = "Static" -> Result(q, h, 0, 0)
      [] q.mode = "Boxed" ->
           LET b == BoxFromStr(h, q.ptr, q.len) IN
           Result(QueryString("Boxed", b.ptr, q.len, 0), b.heap, b.allocs, b.copied)
      [] q.mode = "Arced" ->
           Result(q, [h EXCEPT ![q.ptr.n].rc = @ + 1], 0, 0)

\* Dropping the last Arc handle frees the shared allocation.
ArcRelease(h, ptr) ==
    IF h[ptr.n].rc = 1 THEN Dealloc(h, ptr) ELSE [h EXCEPT ![ptr.n].rc = @ - 1]

\* Drop of a QueryString (the compiler's drop glue for Repr)
drop(h, q) ==
    CASE q.mode = "Slice" -> h
      [] q.mode = "Static" -> h
      [] q.mode = "Boxed" -> Dealloc(h, q.ptr)
      [] q.mode = "Arced" -> ArcRelease(h, q.ptr)

\* ---------------------------------------------------------------- state
\* heap: the allocations.  own: the texts the caller holds.  vals: the
\* QueryString values alive.  born: the text each value was constructed with.
\* last: the library operation run last, its input, its result's slot and
\* what it allocated and copied.
Op(op, v, p, q, text, allocs, copied) ==
    [op |-> op, slot |-> v, p |-> p, q |-> q, text |-> text,
     allocs |-> allocs, copied |-> copied]

Init ==
    /\ heap = [a \in Addr |-> FreeCell]
    /\ own = [o \in Owners |-> NoProd]
    /\ vals = [v \in 1..MaxVals |-> NoVal]
    /\ born = [v \in 1..MaxVals |-> <<>>]
    /\ last = Op("init", 0, NoProd, NoVal, <<>>, 0, 0)

FreeSlot == CHOOSE v \in Slots : ~Live(v) /\ \A w \in Slots : w < v => Live(w)

HasFreeSlot == \E v \in Slots : ~Live(v)

\* The result r of operation op lands in slot v.
Commit(v, r, op, p, q, text) ==
    /\ heap' = r.heap
    /\ vals' = [vals EXCEPT ![v] = r.val]
    /\ born' = [born EXCEPT ![v] = text]
    /\ last' = Op(op, v, p, q, text, r.allocs, r.copied)

\* ------------------------------------------------------- the caller's texts
\* The caller builds a text at run time: String::with_capacity + push_str,
\* Box<str>::from or Arc<str>::from.
CallerNew(o, kind, t, slack) ==
    /\ own[o].kind = "None"
    /\ \A n \in Owners : n < o => own[n].kind # "None"
    /\ kind = "String" \/ slack = 0
    /\ LET cap == Len(t) + slack
           a == Fresh(heap)
       IN IF cap = 0 /\ kind # "Arc"
          THEN /\ own' = [own EXCEPT ![o] = Producer(kind, Dangling, 0, 0)]
               /\ heap' = heap
          ELSE /\ own' = [own EXCEPT ![o] = Producer(kind, HeapPtr(a), Len(t), cap)]
               /\ heap' = [heap EXCEPT ![a] =
                             [live |-> TRUE, data |-> t, size |-> cap,
                              rc |-> IF kind = "Arc" THEN 1 ELSE 0]]
    /\ UNCHANGED <<vals, born, last>>

\* The caller rewrites its String within its capacity (clear, push_str).
CallerMutate(o, t) ==
    /\ own[o].kind = "String"
    /\ Unborrowed(o)
    /\ Len(t) <= own[o].cap
    /\ t # TextOf(heap, own[o])
    /\ own' = [own EXCEPT ![o].len = Len(t)]
    /\ heap' = [heap EXCEPT ![own[o].ptr.n].data = t]
    /\ UNCHANGED <<vals, born, last>>

\* The caller drops its text.
CallerDrop(o) ==
    /\ own[o].kind # "None"
    /\ Unborrowed(o)
    /\ own' = [own EXCEPT ![o] = NoProd]
    /\ heap' = IF own[o].kind = "Arc" THEN ArcRelease(heap, own[o].ptr)
               ELSE Dealloc(heap, own[o].ptr)
    /\ UNCHANGED <<vals, born, last>>

\* ----------------------------------------------------- into_query_string
\* "…".into_query_string() on the i-th literal
FromStatic(i) ==
    /\ HasFreeSlot
    /\ LET p == Producer("StaticStr", RodataPtr(i), Len(Literals[i]), Len(Literals[i]))
       IN Commit(FreeSlot, into_query_string_static(heap, i), "from_static",
                 p, NoVal, Literals[i])
    /\ UNCHANGED own

\* AssertQuerySafe(&*own[o]).into_query_string()
FromSlice(o) ==
    /\ HasFreeSlot
    /\ own[o].kind # "None"
    /\ LET p == Producer("Str", own[o].ptr, own[o].len, own[o].len)
       IN Commit(FreeSlot, into_query_string_slice(heap, p, o), "from_slice",
                 p, NoVal, TextOf(heap, own[o]))
    /\ UNCHANGED own

\* AssertQuerySafe(own[o]).into_query_string(), own[o] a String
FromString(o, moved) ==
    /\ HasFreeSlot
    /\ own[o].kind = "String"
    /\ Unborrowed(o)
    /\ moved => (own[o].len > 0 /\ own[o].cap > own[o].len)
    /\ Commit(FreeSlot, into_query_string_string(heap, own[o], moved), "from_string",
              own[o], NoVal, TextOf(heap, own[o]))
    /\ own' = [own EXCEPT ![o] = NoProd]

\* AssertQuerySafe(own[o]).into_query_string(), own[o] a Box<str>
FromBox(o) ==
    /\ HasFreeSlot
    /\ own[o].kind = "Box"
    /\ Unborrowed(o)
    /\ Commit(FreeSlot, into_query_string_box(heap, own[o]), "from_box",
              own[o], NoVal, TextOf(heap, own[o]))
    /\ own' = [own EXCEPT ![o] = NoProd]

\* AssertQuerySafe(own[o]).into_query_string(), own[o] an Arc<str>; with
\* `keep` the caller passes own[o].clone() and keeps its own handle.
FromArc(o, keep) ==
    /\ HasFreeSlot
    /\ own[o].kind = "Arc"
    /\ keep \/ Unborrowed(o)
    /\ LET h == IF keep THEN [heap EXCEPT ![own[o].ptr.n].rc = @ + 1] ELSE heap
       IN Commit(FreeSlot, into_query_string_arc(h, own[o]), "from_arc",
                 own[o], NoVal, TextOf(heap, own[o]))
    /\ own' = IF keep THEN own ELSE [own EXCEPT ![o] = NoProd]

\* vals[v].into_query_string()
FromQueryString(v) ==
    /\ Live(v)
    /\ Commit(v, into_query_string_self(heap, vals[v]), "from_query_string",
              NoProd, vals[v], born[v])
    /\ UNCHANGED own

\* ----------------------------------------------------------- QueryString
\* vals[v].into_static(): self is consumed, the result takes its place.
IntoStatic(v) ==
    /\ Live(v)
    /\ Commit(v, into_static(heap, vals[v]), "into_static",
              NoProd, vals[v], born[v])
    /\ UNCHANGED own

\* vals[v].clone()
Clone(v) ==
    /\ Live(v)
    /\ HasFreeSlot
    /\ Commit(FreeSlot, clone(heap, vals[v]), "clone", NoProd, vals[v], born[v])
    /\ UNCHANGED own

\* vals[v] goes out of scope.
Drop(v) ==
    /\ Live(v)
    /\ heap' = drop(heap, vals[v])
    /\ vals' = [vals EXCEPT ![v] = NoVal]
    /\ born' = [born EXCEPT ![v] = <<>>]
    /\ last' = Op("drop", 0, NoProd, NoVal, <<>>, 0, 0)
    /\ UNCHANGED own

\* as_str, as_ref, borrow and hash take &self: each reads the text and
\* writes nothing.
Read(v) ==
    /\ Live(v)
    /\ as_ref(vals[v]) = as_str(vals[v])
    /\ borrow(vals[v]) = as_str(vals[v])
    /\ hash(vals[v]) \in 0..65535
    /\ last' = Op("read", 0, NoProd, NoVal, <<>>, 0, 0)
    /\ UNCHANGED <<heap, own, vals, born>>

\* vals[a] == vals[b], on two shared borrows
Eq(a, b) ==
    /\ Live(a)
    /\ Live(b)
    /\ eq(vals[a], vals[b]) \in BOOLEAN
    /\ last' = Op("eq", 0, NoProd, NoVal, <<>>, 0, 0)
    /\ UNCHANGED <<heap, own, vals, born>>

Next ==
    \/ \E o \in Owners, kind \in {"String", "Box", "Arc"}, t \in Texts,
          slack \in 0..MaxSlack : CallerNew(o, kind, t, slack)
    \/ \E o \in Owners, t \in Texts : CallerMutate(o, t)
    \/ \E o \in Owners : CallerDrop(o)
    \/ \E i \in 1..Len(Literals) : FromStatic(i)
    \/ \E o \in Owners : FromSlice(o)
    \/ \E o \in Owners, moved \in BOOLEAN : FromString(o, moved)
    \/ \E o \in Owners : FromBox(o)
    \/ \E o \in Owners, keep \in BOOLEAN : FromArc(o, keep)
    \/ \E v \in Slots : FromQueryString(v)
    \/ \E v \in Slots : IntoStatic(v)
    \/ \E v \in Slots : Clone(v)
    \/ \E v \in Slots : Drop(v)
    \/ \E v \in Slots : Read(v)
    \/ \E a, b \in Slots : Eq(a, b)

Spec == Init /\ [][Next]_vars

\* ------------------------------------------------- equality and hashing
\* Equality and hashing read their operands and change none, so they are
\* checked over operands drawn directly: three values (the a, b and c of
\* transitivity), each in any storage mode and with any text, the Slice
\* values borrowing from a String the caller holds.
EqSlots == 1..3

Choices ==
    [mode : {"Static"}, lit : 1..Len(Literals), text : {<<>>}]
      \cup [mode : {"Boxed", "Arced"}, lit : {0}, text : Texts]
      \cup [mode : {"Slice"}, lit : {0}, text : {<<>>}]

OwnerAddr == Cardinality(EqSlots) + 1

\* The value of choice c in slot k, its allocation (if any) at address k.
Built(k, c, t0) ==
    CASE c.mode = "Static" -> into_query_string_static(heap, c.lit).val
      [] c.mode = "Slice" ->
           QueryString("Slice", IF t0 = <<>> THEN Dangling ELSE HeapPtr(OwnerAddr),
                       Len(t0), 1)
      [] c.mode = "Boxed" ->
           QueryString("Boxed", IF c.text = <<>> THEN Dangling ELSE HeapPtr(k),
                       Len(c.text), 0)
      [] c.mode = "Arced" -> QueryString("Arced", HeapPtr(k), Len(c.text), 0)

BuiltText(c, t0) ==
    CASE c.mode = "Static" -> Literals[c.lit]
      [] c.mode = "Slice" -> t0
      [] OTHER -> c.text

BuiltCell(c) ==
    IF c.mode = "Arced" \/ (c.mode = "Boxed" /\ c.text # <<>>)
    THEN [live |-> TRUE, data |-> c.text, size |-> Len(c.text),
          rc |-> IF c.mode = "Arced" THEN 1 ELSE 0]
    ELSE FreeCell

InitEq ==
    \E t0 \in Texts, ch \in [EqSlots -> Choices] :
       /\ heap = [a \in Addr |->
                    IF a \in EqSlots THEN BuiltCell(ch[a])
                    ELSE IF a = OwnerAddr /\ t0 # <<>>
                    THEN [live |-> TRUE, data |-> t0, size |-> Len(t0), rc |-> 0]
                    ELSE FreeCell]
       /\ own = [o \in Owners |->
                    IF o = 1
                    THEN Producer("String",
                                  IF t0 = <<>> THEN Dangling ELSE HeapPtr(OwnerAddr),
                                  Len(t0), Len(t0))
                    ELSE NoProd]
       /\ vals = [k \in EqSlots |-> Built(k, ch[k], t0)]
       /\ born = [k \in EqSlots |-> BuiltText(ch[k], t0)]
       /\ last = Op("init", 0, NoProd, NoVal, <<>>, 0, 0)

NextEq ==
    \/ \E v \in Slots : Read(v)
    \/ \E a, b \in Slots : Eq(a, b)

SpecEq == InitEq /\ [][NextEq]_vars

\* ================================================================ claims
Out == vals[last.slot]

ProducerOps == {"from_slice", "from_string", "from_box", "from_arc"}

\* C2: two values are equal exactly when their payloads (the texts they were
\* built with, which as_str returns) are the same bytes, and equal values
\* hash equal, whatever their storage modes.
C2_EqIffSamePayload ==
    \A a, b \in Slots :
       (Live(a) /\ Live(b)) =>
          /\ eq(vals[a], vals[b]) <=> (born[a] = born[b])
          /\ eq(vals[a], vals[b]) <=> (as_str(vals[a]) = as_str(vals[b]))
          /\ eq(vals[a], vals[b]) => hash(vals[a]) = hash(vals[b])

\* A Static "a" and a Boxed "a" have been compared: equal, with equal hashes.
C2_Witness ==
    /\ last.op = "eq"
    /\ \E a, b \in Slots :
          /\ vals[a].mode = "Static" /\ vals[b].mode = "Boxed"
          /\ born[a] = <<97>> /\ born[b] = <<97>>
          /\ eq(vals[a], vals[b])
          /\ hash(vals[a]) = hash(vals[b])

\* C9: equality is reflexive, symmetric and transitive over values of any
\* payload (the empty text included) in any mix of storage modes.
C9_EqEquivalence ==
    \A a, b, c \in Slots :
       (Live(a) /\ Live(b) /\ Live(c)) =>
          /\ eq(vals[a], vals[a])
          /\ eq(vals[a], vals[b]) => eq(vals[b], vals[a])
          /\ (eq(vals[a], vals[b]) /\ eq(vals[b], vals[c])) => eq(vals[a], vals[c])

\* Three values of three different modes have been compared: two hold the
\* same text and the third holds the empty text.
C9_Witness ==
    /\ last.op = "eq"
    /\ \E a, b, c \in Slots :
          /\ Cardinality({vals[a].mode, vals[b].mode, vals[c].mode}) = 3
          /\ eq(vals[a], vals[b]) /\ born[a] # <<>>
          /\ born[c] = <<>> /\ eq(vals[c], vals[c]) /\ ~eq(vals[b], vals[c])

\* C3: into_static on a Static, Boxed or Arced value returns the value it was
\* given (same mode, same pointer and length, so the same allocation and
\* payload) and neither allocates nor copies.
C3_IntoStaticIdentity ==
    (last.op = "into_static" /\ last.q.mode \in {"Static", "Boxed", "Arced"}) =>
       /\ Out = last.q
       /\ as_str(Out) = last.text
       /\ last.allocs = 0
       /\ last.copied = 0

\* into_static has run on a Boxed value that owns an allocation.
C3_Witness ==
    /\ last.op = "into_static"
    /\ last.q.mode = "Boxed"
    /\ last.q.len > 0

\* C4 as stated: into_static on a Slice value performs exactly one allocation
\* and one copy of the payload.
C4_ExactlyOneAllocation ==
    (last.op = "into_static" /\ last.q.mode = "Slice") =>
       /\ last.allocs = 1
       /\ last.copied = last.q.len

\* C4 as amended: into_static on a Slice value returns a Boxed value with the
\* input's payload, copied once; it allocates once when the payload is not
\* empty (into storage apart from the origin) and not at all when it is
\* empty; the result keeps the original text whatever the origin becomes.
C4_SliceErased ==
    (last.op = "into_static" /\ last.q.mode = "Slice") =>
       /\ Out.mode = "Boxed"
       /\ Out.len = last.q.len
       /\ as_str(Out) = last.text
       /\ last.copied = last.q.len
       /\ last.allocs = (IF last.q.len = 0 THEN 0 ELSE 1)
       /\ last.q.len > 0 => (Out.ptr.seg = "heap" /\ Out.ptr # last.q.ptr)
       /\ \A o \in Owners : own[o].len > 0 => own[o].ptr # Out.ptr

\* into_static ran on a Slice of a non-empty text, and the String it borrowed
\* from has since been rewritten.
C4_Witness ==
    /\ last.op = "into_static"
    /\ last.q.mode = "Slice"
    /\ last.q.len > 0
    /\ own[last.q.origin].kind = "String"
    /\ own[last.q.origin].ptr = last.q.ptr
    /\ TextOf(heap, own[last.q.origin]) # last.text

\* C5: a literal converts to a Static value that points at the literal itself,
\* with no allocation and no copy, and as_str returns the literal's text.
C5_StaticByReference ==
    last.op = "from_static" =>
       /\ Out.mode = "Static"
       /\ Out.ptr = last.p.ptr
       /\ Out.len = last.p.len
       /\ as_str(Out) = Literals[last.p.ptr.n]
       /\ last.allocs = 0
       /\ last.copied = 0

\* The second literal "a" (the last of the table) has been converted.
C5_Witness ==
    /\ last.op = "from_static"
    /\ last.p.ptr = RodataPtr(Len(Literals))
    /\ as_str(Out) = <<97>>

ModeFor(op) ==
    CASE op = "from_slice" -> "Slice"
      [] op = "from_string" -> "Boxed"
      [] op = "from_box" -> "Boxed"
      [] op = "from_arc" -> "Arced"

WellFormed(r, text) ==
    /\ r.val.mode \in Modes
    /\ r.val.len = Len(text)
    /\ as_str_in(r.heap, r.val) = text

\* C6: into_query_string yields a value for every producer and text; the
\* value's as_str is the producer's text, its mode is the one the producer
\* fixes, and an existing QueryString converts to itself.
C6_IntoQueryStringTotal ==
    /\ last.op \in ProducerOps =>
          (Out.mode = ModeFor(last.op) /\ as_str(Out) = last.text)
    /\ last.op = "from_query_string" =>
          (Out = last.q /\ as_str(Out) = last.text
             /\ last.allocs = 0 /\ last.copied = 0)
    /\ \A i \in 1..Len(Literals) :
          WellFormed(into_query_string_static(heap, i), Literals[i])
    /\ \A v \in Slots :
          Live(v) => WellFormed(into_query_string_self(heap, vals[v]), born[v])
    /\ \A o \in Owners :
          LET p == own[o] t == TextOf(heap, own[o]) IN
          /\ p.kind # "None" => WellFormed(into_query_string_slice(heap, p, o), t)
          /\ p.kind = "Box" => WellFormed(into_query_string_box(heap, p), t)
          /\ p.kind = "Arc" => WellFormed(into_query_string_arc(heap, p), t)
          /\ p.kind = "String" =>
                \A moved \in BOOLEAN :
                   (moved => (p.len > 0 /\ p.cap > p.len)) =>
                      WellFormed(into_query_string_string(heap, p, moved), t)

\* A String with spare capacity has been converted.
C6_Witness ==
    /\ last.op = "from_string"
    /\ last.p.len > 0
    /\ last.p.cap > last.p.len
    /\ as_str(Out) = <<97>>

\* C7 as stated: converting an asserted producer copies nothing, and the
\* result of converting a non-empty text is backed by the input's allocation.
C7_NeverCopies ==
    last.op \in ProducerOps =>
       /\ last.copied = 0
       /\ last.allocs = 0
       /\ Out.len > 0 => Out.ptr = last.p.ptr

\* C8: every live value reads the text it was constructed with.
C8_PayloadNeverMutated ==
    \A v \in Slots : Live(v) => as_str(vals[v]) = born[v]

\* A Boxed value has been cloned into storage of its own, both reading the
\* text of their construction.
C8_Witness ==
    /\ last.op = "clone"
    /\ last.q.mode = "Boxed"
    /\ \E v, w \in Slots :
          /\ v # w
          /\ Live(v) /\ Live(w)
          /\ born[v] = born[w] /\ born[v] # <<>>
          /\ vals[v].ptr # vals[w].ptr

\* C10: a result of into_static is never a Slice, and into_static applied to
\* it again returns it unchanged without allocating or copying.
C10_IntoStaticIdempotent ==
    last.op = "into_static" =>
       /\ Out.mode # "Slice"
       /\ LET r == into_static(heap, Out) IN
          /\ r.val = Out
          /\ r.heap = heap
          /\ r.allocs = 0
          /\ r.copied = 0

\* into_static has turned a Slice into a value of another mode.
C10_Witness ==
    /\ last.op = "into_static"
    /\ last.q.mode = "Slice"
    /\ Out.mode = "Boxed"

====
